---- MODULE Spec2Model ----
(***************************************************************************)
(* Value types of naeti-utils-deno: Duration (src/unnamed/part_000, the    *)
(* module ./utils/duration.ts), Optional (src/utils/optional.ts) and       *)
(* Instant (src/utils/logger.ts).                                          *)
(*                                                                         *)
(* The state holds the instances a client has constructed (the fields of   *)
(* each object) and the outcome of the last call made on them.  Every      *)
(* method and factory is one action; what a method computes is an operator *)
(* written after its code.  Arrays are 1-based here and 0-based in the     *)
(* source: index i of the model is index i-1 of the code.                  *)
(***************************************************************************)
EXTENDS Integers, Sequences, FiniteSets, TLC

\* Instants of the array fixture have epochMilli in -MaxMilli..MaxMilli.
MaxMilli == 1
\* Longest array handed to findClosestInstant.
MaxLen == 3
\* Durations have millis in -MaxRange..MaxRange; the instants of the range
\* fixture have epochMilli in -(MaxRange+1)..(MaxRange+1).
MaxRange == 2
\* Numbers an Optional may hold: 0..MaxValue.
MaxValue == 1

VARIABLES
    instant,        \* the receiver Instant: [epochMilli]
    other,          \* an argument Instant: [epochMilli]
    instants,       \* an argument Instant[]: sequence of [epochMilli]
    duration,       \* the receiver Duration, also the `range` argument: [millis]
    otherDuration,  \* an argument Duration: [millis]
    optional,       \* the receiver Optional: [value]
    stamp,          \* an Instant whose epochMilli may be any JS number: [epochMilli]
    op,             \* name of the last call
    arg,            \* the by-value inputs of the last call
    ret,            \* how the last call ended: Return(v) or Throw(e)
    calls,          \* the callbacks the last call invoked, in order
    generator,      \* the PostgresClient generator method called, "none" before
    pc,             \* where the generator's body is suspended
    trace,          \* the calls the body has made on the client, in order
    result          \* what the consumer's last call on the generator gave

objects == <<instant, other, instants, duration, otherDuration, optional, stamp>>
values == <<instant, other, instants, duration, otherDuration, optional, stamp, op, arg, ret, calls>>
pgvars == <<generator, pc, trace, result>>
vars == <<instant, other, instants, duration, otherDuration, optional, stamp, op, arg, ret, calls,
          generator, pc, trace, result>>

----------------------------------------------------------------------------
(* JavaScript values and call outcomes *)

Undefined == [type |-> "undefined"]
Null == [type |-> "null"]
Num(n) == [type |-> "number", n |-> n]
\* A reference to the Instant object stored at instants[i].
Ref(i) == [type |-> "object", ref |-> i]
Bool(b) == [type |-> "boolean", b |-> b]
\* A string, given by its text.
Str(text) == [type |-> "string", text |-> text]
\* A caller's thrower: a function that raises or one that returns.
Thrower(does) == [type |-> "function", does |-> does]

Return(v) == [kind |-> "return", value |-> v]
Throw(e) == [kind |-> "throw", error |-> e]
NoCall == [kind |-> "none"]

Abs(x) == IF x < 0 THEN -x ELSE x

----------------------------------------------------------------------------
(* Duration: src/unnamed/part_000 *)

\* new Duration(millis)
Duration(millis) == [millis |-> millis]

\* Mutant of ofMillis: the sign test written `<=`, so that zero is refused.
ofMillisRefusingZero(millis) ==
    IF millis <= 0
    THEN Throw("Duration must not be negative")
    ELSE Return(Duration(millis))

\* Duration.ofMillis(millis)
ofMillis(millis) ==
    IF millis < 0
    THEN Throw("Duration must not be negative")
    ELSE Return(Duration(millis))

\* Duration.ofSeconds(seconds): no sign test
ofSeconds(seconds) == Return(Duration(seconds * 1000))

toMillis(self) == self.millis
isGreaterThanOrEqual(self, d) == self.millis >= d.millis
isEquals(self, d) == self.millis = d.millis
isLessThan(self, d) == self.millis < d.millis
durationPlus(self, d) == Duration(self.millis + d.millis)
durationMinus(self, d) == Duration(self.millis - d.millis)

----------------------------------------------------------------------------
(* Optional: src/utils/optional.ts *)

\* Mutant of isNullOrUndefined: the test for null forgotten.
isUndefinedOnly(value) == value = Undefined

isNullOrUndefined(value) == value = Undefined \/ value = Null

\* new Optional(value): the constructor stores what it is given.
Optional(value) == [value |-> value]
\* Optional.of(value)
OptionalOf(value) == Optional(value)
\* Optional.empty()
OptionalEmpty == Optional(Undefined)

isPresent(self) == isNullOrUndefined(self.value) = FALSE

\* Mutant of get: the absent slot handed out instead of the error.
getUnchecked(self) == Return(self.value)

get(self) ==
    IF isNullOrUndefined(self.value)
    THEN Throw("Value is not present")
    ELSE Return(self.value)

orElse(self, x) ==
    IF isNullOrUndefined(self.value) THEN Return(x) ELSE Return(self.value)

(* A call that runs callbacks ends in [out |-> outcome, calls |-> the
   invocations made].  A callback is given by what its invocation does: a
   thrower either raises or returns, a supplier, mapper or predicate returns
   a value. *)
Invoked(fn, v) == [fn |-> fn, arg |-> v]
Ran(out, cs) == [out |-> out, calls |-> cs]

\* Mutant of orElseThrow: an absent value is an error also when the thrower
\* returns, as in get.
orElseThrowStrict(self, throws) ==
    IF isNullOrUndefined(self.value)
    THEN IF throws = "raises"
         THEN Ran(Throw("thrown by the thrower"), <<Invoked("throws", Undefined)>>)
         ELSE Ran(Throw("Value is not present"), <<Invoked("throws", Undefined)>>)
    ELSE Ran(Return(self.value), <<>>)

\* orElseThrow(throws): throws() runs when absent; when it returns, the code
\* goes on to `return this.value!`.
orElseThrow(self, throws) ==
    IF isNullOrUndefined(self.value)
    THEN IF throws = "raises"
         THEN Ran(Throw("thrown by the thrower"), <<Invoked("throws", Undefined)>>)
         ELSE Ran(Return(self.value), <<Invoked("throws", Undefined)>>)
    ELSE Ran(Return(self.value), <<>>)

\* orElseGet(other): other() returns x
orElseGet(self, x) ==
    IF isNullOrUndefined(self.value)
    THEN Ran(Return(x), <<Invoked("other", Undefined)>>)
    ELSE Ran(Return(self.value), <<>>)

\* ifPresent(consumer)
ifPresent(self) ==
    IF ~isNullOrUndefined(self.value)
    THEN Ran(Return(Undefined), <<Invoked("consumer", self.value)>>)
    ELSE Ran(Return(Undefined), <<>>)

\* Mutant of map: the mapper applied before the test for absence.
mapEager(self, r) ==
    IF isNullOrUndefined(self.value)
    THEN Ran(Return(OptionalEmpty), <<Invoked("mapper", self.value)>>)
    ELSE Ran(Return(OptionalOf(r)), <<Invoked("mapper", self.value)>>)

\* map(mapper): mapper(this.value) returns r
map(self, r) ==
    IF isNullOrUndefined(self.value)
    THEN Ran(Return(OptionalEmpty), <<>>)
    ELSE Ran(Return(OptionalOf(r)), <<Invoked("mapper", self.value)>>)

\* filter(predicate): predicate(this.value) returns b; `||` does not call the
\* predicate when the value is absent.
filter(self, b) ==
    IF isNullOrUndefined(self.value)
    THEN Ran(Return(OptionalEmpty), <<>>)
    ELSE IF ~b
         THEN Ran(Return(OptionalEmpty), <<Invoked("predicate", self.value)>>)
         ELSE Ran(Return(OptionalOf(self.value)), <<Invoked("predicate", self.value)>>)

----------------------------------------------------------------------------
(* Instant: src/utils/logger.ts *)

\* new Instant(epochMilli)
Instant(epochMilli) == [epochMilli |-> epochMilli]

isAfter(self, o) == self.epochMilli > o.epochMilli
isBefore(self, o) == self.epochMilli < o.epochMilli
isEqual(self, o) == self.epochMilli = o.epochMilli
instantMinus(self, d) == Instant(self.epochMilli - toMillis(d))
instantPlus(self, d) == Instant(self.epochMilli + toMillis(d))

\* Mutant of difference: Math.abs left out.
differenceSigned(self, o) == ofMillis(self.epochMilli - o.epochMilli)

\* difference(other): built through the validating factory
difference(self, o) == ofMillis(Abs(self.epochMilli - o.epochMilli))

\* Mutant of isWithinUpperBound: the bound computed with minus, as in
\* isWithinLowerBound.
isWithinUpperBoundOfMinus(self, o, range) ==
    LET upperBound == instantMinus(self, range)
    IN  IF isBefore(o, upperBound) THEN TRUE ELSE FALSE

isWithinUpperBound(self, o, range) ==
    LET upperBound == instantPlus(self, range)
    IN  IF isBefore(o, upperBound) THEN TRUE ELSE FALSE

\* Mutant of isWithinLowerBound: the lower bound admitted, as the comment on
\* isWithinRange words it ("inclusive of the lower bound").
isWithinLowerBoundInclusive(self, o, range) ==
    LET lowerBound == instantMinus(self, range)
    IN  IF isAfter(o, lowerBound) \/ isEqual(o, lowerBound) THEN TRUE ELSE FALSE

isWithinLowerBound(self, o, range) ==
    LET lowerBound == instantMinus(self, range)
    IN  IF isAfter(o, lowerBound) THEN TRUE ELSE FALSE

isWithinRange(self, o, range) ==
    IF isWithinUpperBound(self, o, range) /\ isWithinLowerBound(self, o, range)
    THEN TRUE
    ELSE FALSE

\* Mutant of the replacement test of findClosestInstant: an equal distance
\* replaces the candidate kept so far (`<=` for `<`).
closerOrEqual(d, closestDifference) == ~isLessThan(closestDifference, d)

\* The test `difference.isLessThan(closestDifference)` of the loop.
closer(d, closestDifference) == isLessThan(d, closestDifference)

(* The for loop of findClosestInstant from index i on; closestInstant is the
   reference kept so far (Ref(k) for cs[k]) and closestDifference its
   Duration.  An error of difference ends the call. *)
RECURSIVE findClosestLoop(_, _, _, _, _)
findClosestLoop(self, cs, i, closestInstant, closestDifference) ==
    IF i > Len(cs)
    THEN Return(OptionalOf(closestInstant))
    ELSE LET d == difference(self, cs[i])
         IN  IF d.kind = "throw"
             THEN d
             ELSE IF closer(d.value, closestDifference)
                  THEN findClosestLoop(self, cs, i + 1, Ref(i), d.value)
                  ELSE findClosestLoop(self, cs, i + 1, closestInstant, closestDifference)

findClosestInstant(self, cs) ==
    IF Len(cs) = 0
    THEN Return(OptionalEmpty)
    ELSE LET first == difference(self, cs[1])
         IN  IF first.kind = "throw"
             THEN first
             ELSE findClosestLoop(self, cs, 2, Ref(1), first.value)

(* The log level: src/utils/logger.ts 6-29.  The text of a string is here
   the sequence of its characters. *)

\* The names of the levels.
TRACE_ == <<"T", "R", "A", "C", "E">>
DEBUG_ == <<"D", "E", "B", "U", "G">>
INFO_ == <<"I", "N", "F", "O">>
WARN_ == <<"W", "A", "R", "N">>
ERROR_ == <<"E", "R", "R", "O", "R">>

LowerCase == <<"a", "b", "c", "d", "e", "f", "g", "h", "i", "j", "k", "l", "m",
               "n", "o", "p", "q", "r", "s", "t", "u", "v", "w", "x", "y", "z">>
UpperCase == <<"A", "B", "C", "D", "E", "F", "G", "H", "I", "J", "K", "L", "M",
               "N", "O", "P", "Q", "R", "S", "T", "U", "V", "W", "X", "Y", "Z">>

\* String.prototype.toUpperCase, character by character.
toUpperCase(text) ==
    [i \in DOMAIN text |->
        IF \E k \in DOMAIN LowerCase : LowerCase[k] = text[i]
        THEN UpperCase[CHOOSE k \in DOMAIN LowerCase : LowerCase[k] = text[i]]
        ELSE text[i]]

(* enum LogLevel: a numeric enum is an object that maps each name to its
   number and each number, as a property key, back to its name. *)
LogLevel ==
    [key \in {TRACE_, DEBUG_, INFO_, WARN_, ERROR_, <<"4">>, <<"3">>, <<"2">>, <<"1">>, <<"0">>} |->
        CASE key = TRACE_ -> Num(4)
          [] key = DEBUG_ -> Num(3)
          [] key = INFO_ -> Num(2)
          [] key = WARN_ -> Num(1)
          [] key = ERROR_ -> Num(0)
          [] key = <<"4">> -> Str(TRACE_)
          [] key = <<"3">> -> Str(DEBUG_)
          [] key = <<"2">> -> Str(INFO_)
          [] key = <<"1">> -> Str(WARN_)
          [] key = <<"0">> -> Str(ERROR_)]

\* LogLevel[key]: undefined for a key the object does not have.
LogLevelAt(key) == IF key \in DOMAIN LogLevel THEN LogLevel[key] ELSE Undefined

\* getLogLevelFromEnv(), envLogLevel being what Deno.env.get('LOG_LEVEL')
\* gave: undefined, or a string, which is truthy unless empty.
getLogLevelFromEnv(envLogLevel) ==
    IF envLogLevel # Undefined /\ envLogLevel.text # <<>>
    THEN LET level == LogLevelAt(toUpperCase(envLogLevel.text))
         IN  IF level # Undefined THEN Return(level) ELSE Return(LogLevel[INFO_])
    ELSE Return(LogLevel[INFO_])

----------------------------------------------------------------------------
(* Conversions to and from text (logger.ts 303-341).  The timestamp of stamp
   is a tagged JS number: Num(n), NaN, or a number beyond the range of Date,
   |n| > 8.64e15, which no bounded integer of the model reaches.  A Date made
   of NaN or of a number beyond the range is an invalid Date. *)

NaN == [type |-> "number", nan |-> TRUE]
BeyondDate(sign) == [type |-> "number", beyondDate |-> sign]

\* new Date(epochMilli): TimeClip keeps a number within the range.
ValidDate(t) == t # NaN /\ t # BeyondDate("+") /\ t # BeyondDate("-")

(* The fields Date.prototype.toISOString prints, YYYY-MM-DDTHH:mm:ss.sssZ,
   for a timestamp less than a day from the epoch. *)
IsoFields(n) ==
    LET day == 86400000
        tod == IF n >= 0 THEN n ELSE day + n
    IN  [date |-> IF n >= 0 THEN "1970-01-01" ELSE "1969-12-31",
         hh |-> tod \div 3600000,
         mm |-> (tod \div 60000) % 60,
         ss |-> (tod \div 1000) % 60,
         sss |-> tod % 1000]

\* Date.parse of the text toISOString prints; any other text here is
\* malformed and parses to NaN.
DateParse(s) ==
    IF "date" \in DOMAIN s.text
    THEN LET f == s.text
             tod == f.hh * 3600000 + f.mm * 60000 + f.ss * 1000 + f.sss
         IN  Num(IF f.date = "1970-01-01" THEN tod ELSE tod - 86400000)
    ELSE NaN

\* toISO8601(): Date.prototype.toISOString raises a RangeError on an invalid
\* Date.
toISO8601(self) ==
    IF ValidDate(self.epochMilli)
    THEN Return(Str(IsoFields(self.epochMilli.n)))
    ELSE Throw("RangeError: Invalid time value")

\* toFriendlyString(): Date.prototype.toUTCString prints "Invalid Date" and
\* does not raise.
toFriendlyString(self) ==
    IF ValidDate(self.epochMilli)
    THEN Return(Str([utc |-> IsoFields(self.epochMilli.n)]))
    ELSE Return(Str([invalid |-> "Invalid Date"]))

\* fromISO8601(iso8601): the receiver is not read
fromISO8601(self, iso8601) == Return(Instant(DateParse(iso8601)))

----------------------------------------------------------------------------
(* PostgresClient: src/store/rmq/rabbitmq.ts 52-100.  withConnection and
   withTransaction are async generators: the body runs when the consumer
   calls next(), return() or throw() on the generator, up to its yield or its
   end.  Every call the body makes on the client, and the callback, either
   succeeds or raises. *)

\* A call the body made and whether it succeeded.
Did(call, ok) == [call |-> call, ok |-> ok]

\* What a call on the generator gives its consumer.
Yielded(v) == [kind |-> "yield", value |-> v]
Returned(v) == [kind |-> "done", value |-> v]
Done == Returned(Undefined)
Raised(e) == [kind |-> "raise", error |-> e]

\* No generator has been made.
NoGenerator ==
    /\ generator = "none"
    /\ pc = "none"
    /\ trace = <<>>
    /\ result = NoCall

(* finally { await this.client.end(); }: pending is how the try or catch
   block ended; an error of end() takes its place. *)
Finally(tr, pending, endOk) ==
    [trace |-> Append(tr, Did("end", endOk)),
     result |-> IF endOk THEN pending ELSE Raised("end")]

(* catch (error) { await transaction.rollback(); throw error; } and then
   the finally block: an error of rollback() takes the place of error. *)
Catch(tr, error, rollbackOk, endOk) ==
    Finally(Append(tr, Did("rollback", rollbackOk)),
            IF rollbackOk THEN Raised(error) ELSE Raised("rollback"),
            endOk)

\* The calls of a generator's body that can raise.
ClientCalls == {"connect", "createTransaction", "begin", "callback", "commit", "rollback", "end"}

\* One outcome for each of them.
Outcomes == [ClientCalls -> BOOLEAN]

\* The body stopped at its yield, or ended.
Suspended(tr, v) == [pc |-> "yielded", trace |-> tr, result |-> Yielded(v)]
Ended(f) == [pc |-> "done", trace |-> f.trace, result |-> f.result]

(* withConnection, lines 70-77.  from is where the body resumes, sent the
   consumer's call, ok the outcome of each call the body makes, v the value
   the callback resolves to or, with return(), the value the consumer
   passes. *)
withConnection(from, sent, tr, ok, v) ==
    IF from = "start"
    THEN LET connected == <<Did("connect", ok["connect"])>>
             called == Append(connected, Did("callback", ok["callback"]))
         IN  IF ~ok["connect"]
             THEN Ended([trace |-> connected, result |-> Raised("connect")])
             ELSE IF ok["callback"]
                  THEN Suspended(called, v)
                  ELSE Ended(Finally(called, Raised("callback"), ok["end"]))
    ELSE IF sent = "throw"
         THEN Ended(Finally(tr, Raised("consumer"), ok["end"]))
         ELSE IF sent = "return"
         THEN Ended(Finally(tr, Returned(v), ok["end"]))
         ELSE Ended(Finally(tr, Done, ok["end"]))

(* withTransaction, lines 87-100.  connect(), createTransaction() and
   begin() stand before the try block; return() at the yield runs the
   finally block only, throw() at the yield the catch block first. *)
withTransaction(from, sent, tr, ok, v) ==
    IF from = "start"
    THEN LET connected == <<Did("connect", ok["connect"])>>
             created == Append(connected, Did("createTransaction", ok["createTransaction"]))
             begun == Append(created, Did("begin", ok["begin"]))
             called == Append(begun, Did("callback", ok["callback"]))
         IN  IF ~ok["connect"]
             THEN Ended([trace |-> connected, result |-> Raised("connect")])
             ELSE IF ~ok["createTransaction"]
             THEN Ended([trace |-> created, result |-> Raised("createTransaction")])
             ELSE IF ~ok["begin"]
             THEN Ended([trace |-> begun, result |-> Raised("begin")])
             ELSE IF ok["callback"]
             THEN Suspended(called, v)
             ELSE Ended(Catch(called, "callback", ok["rollback"], ok["end"]))
    ELSE IF sent = "throw"
         THEN Ended(Catch(tr, "consumer", ok["rollback"], ok["end"]))
         ELSE IF sent = "return"
         THEN Ended(Finally(tr, Returned(v), ok["end"]))
         ELSE LET committed == Append(tr, Did("commit", ok["commit"]))
              IN  IF ok["commit"]
                  THEN Ended(Finally(committed, Done, ok["end"]))
                  ELSE Ended(Catch(committed, "commit", ok["rollback"], ok["end"]))

\* The body of the generator at hand.
Body(from, sent, ok, v) ==
    IF generator = "withConnection"
    THEN withConnection(from, sent, trace, ok, v)
    ELSE withTransaction(from, sent, trace, ok, v)

----------------------------------------------------------------------------
(* The instances a client holds, and the values it passes.  A variable is
   Undefined while the client has constructed no instance for it (instants,
   an array, is then empty); a method needs its receiver and its arguments,
   a static factory needs nothing. *)

Millis == -MaxMilli..MaxMilli
RangeMillis == -MaxRange..MaxRange
WideMillis == -(MaxRange + 1)..(MaxRange + 1)

\* What an Optional<number> can be given: a number, null or undefined.
Present == {Num(n) : n \in 0..MaxValue}
Values == Present \cup {Null, Undefined}

\* The numbers an Instant may be made of.
Timestamps == {Num(n) : n \in Millis} \cup {NaN, BeyondDate("+"), BeyondDate("-")}
\* The strings handed to fromISO8601: well-formed ones and a malformed one.
IsoStrings == {Str(IsoFields(n)) : n \in Millis} \cup {Str([malformed |-> "yesterday"])}

\* What LOG_LEVEL may be: unset, empty, a level's name in any case, another
\* word, a number.
EnvValues ==
    {Undefined, Str(<<>>),
     Str(<<"i", "n", "f", "o">>),
     Str(<<"I", "N", "F", "O">>),
     Str(<<"T", "r", "a", "c", "e">>),
     Str(<<"d", "e", "b", "u", "g">>),
     Str(<<"w", "A", "r", "N">>),
     Str(<<"E", "R", "R", "O", "R">>),
     Str(<<"v", "e", "r", "b", "o", "s", "e">>),
     Str(<<"5">>),
     Str(<<"0">>),
     Str(<<"1">>),
     Str(<<"2">>),
     Str(<<"3">>),
     Str(<<"4">>),
     Str(<<"1", "0">>)}

Arrays == UNION {[1..n -> {Instant(m) : m \in Millis}] : n \in 0..MaxLen}

\* An instant and an array of candidates.
ArrayFixture ==
    /\ instant \in {Instant(m) : m \in Millis}
    /\ instants \in Arrays
    /\ other = Undefined
    /\ duration = Undefined
    /\ otherDuration = Undefined
    /\ optional = Undefined
    /\ stamp = Undefined

\* Two instants and a range.  A Duration is negative after minus or
\* ofSeconds, which test no sign.
RangeFixture ==
    /\ instant \in {Instant(m) : m \in WideMillis}
    /\ other \in {Instant(m) : m \in WideMillis}
    /\ duration \in {Duration(m) : m \in RangeMillis}
    /\ instants = <<>>
    /\ otherDuration = Undefined
    /\ optional = Undefined
    /\ stamp = Undefined

\* Two durations.
DurationFixture ==
    /\ duration \in {Duration(m) : m \in RangeMillis}
    /\ otherDuration \in {Duration(m) : m \in RangeMillis}
    /\ instant = Undefined
    /\ other = Undefined
    /\ instants = <<>>
    /\ optional = Undefined
    /\ stamp = Undefined

\* An Optional, as Optional.of or Optional.empty builds it.
OptionalFixture ==
    /\ optional \in {OptionalOf(v) : v \in Values} \cup {OptionalEmpty}
    /\ instant = Undefined
    /\ other = Undefined
    /\ instants = <<>>
    /\ duration = Undefined
    /\ otherDuration = Undefined
    /\ stamp = Undefined

\* An instant of any timestamp: one given to ofEpochMilli, or the NaN that
\* fromISO8601 stores for a malformed string.
StampFixture ==
    /\ stamp \in {Instant(t) : t \in Timestamps}
    /\ instant = Undefined
    /\ other = Undefined
    /\ instants = <<>>
    /\ duration = Undefined
    /\ otherDuration = Undefined
    /\ optional = Undefined

Init ==
    /\ ArrayFixture \/ RangeFixture \/ DurationFixture \/ OptionalFixture \/ StampFixture
    /\ op = "init"
    /\ arg = Undefined
    /\ ret = NoCall
    /\ calls = <<>>
    /\ NoGenerator

----------------------------------------------------------------------------
(* Duration's calls: the receiver is duration, the argument otherDuration *)

DurationOfMillis(n) ==
    /\ op' = "Duration.ofMillis"
    /\ arg' = Num(n)
    /\ ret' = ofMillis(n)
    /\ calls' = <<>>
    /\ UNCHANGED objects

DurationToMillis ==
    /\ duration # Undefined
    /\ op' = "Duration.toMillis"
    /\ arg' = Undefined
    /\ ret' = Return(Num(toMillis(duration)))
    /\ calls' = <<>>
    /\ UNCHANGED objects

DurationPlus ==
    /\ duration # Undefined
    /\ otherDuration # Undefined
    /\ op' = "Duration.plus"
    /\ arg' = Undefined
    /\ ret' = Return(durationPlus(duration, otherDuration))
    /\ calls' = <<>>
    /\ UNCHANGED objects

\* Mutant of DurationMinus: the result built through the validating factory.
DurationMinusValidated ==
    /\ duration # Undefined
    /\ otherDuration # Undefined
    /\ op' = "Duration.minus"
    /\ arg' = Undefined
    /\ ret' = ofMillis(duration.millis - otherDuration.millis)
    /\ calls' = <<>>
    /\ UNCHANGED objects

DurationMinus ==
    /\ duration # Undefined
    /\ otherDuration # Undefined
    /\ op' = "Duration.minus"
    /\ arg' = Undefined
    /\ ret' = Return(durationMinus(duration, otherDuration))
    /\ calls' = <<>>
    /\ UNCHANGED objects

DurationIsLessThan ==
    /\ duration # Undefined
    /\ otherDuration # Undefined
    /\ op' = "Duration.isLessThan"
    /\ arg' = Undefined
    /\ ret' = Return(Bool(isLessThan(duration, otherDuration)))
    /\ calls' = <<>>
    /\ UNCHANGED objects

DurationIsEquals ==
    /\ duration # Undefined
    /\ otherDuration # Undefined
    /\ op' = "Duration.isEquals"
    /\ arg' = Undefined
    /\ ret' = Return(Bool(isEquals(duration, otherDuration)))
    /\ calls' = <<>>
    /\ UNCHANGED objects

DurationIsGreaterThanOrEqual ==
    /\ duration # Undefined
    /\ otherDuration # Undefined
    /\ op' = "Duration.isGreaterThanOrEqual"
    /\ arg' = Undefined
    /\ ret' = Return(Bool(isGreaterThanOrEqual(duration, otherDuration)))
    /\ calls' = <<>>
    /\ UNCHANGED objects

----------------------------------------------------------------------------
(* Instant's calls: the receiver is instant, the arguments other, duration
   (the range) and instants *)

InstantPlus ==
    /\ instant # Undefined
    /\ duration # Undefined
    /\ op' = "Instant.plus"
    /\ arg' = Undefined
    /\ ret' = Return(instantPlus(instant, duration))
    /\ calls' = <<>>
    /\ UNCHANGED objects

InstantMinus ==
    /\ instant # Undefined
    /\ duration # Undefined
    /\ op' = "Instant.minus"
    /\ arg' = Undefined
    /\ ret' = Return(instantMinus(instant, duration))
    /\ calls' = <<>>
    /\ UNCHANGED objects

Difference ==
    /\ instant # Undefined
    /\ other # Undefined
    /\ op' = "difference"
    /\ arg' = Undefined
    /\ ret' = difference(instant, other)
    /\ calls' = <<>>
    /\ UNCHANGED objects

IsWithinRange ==
    /\ instant # Undefined
    /\ other # Undefined
    /\ duration # Undefined
    /\ op' = "isWithinRange"
    /\ arg' = Undefined
    /\ ret' = Return(Bool(isWithinRange(instant, other, duration)))
    /\ calls' = <<>>
    /\ UNCHANGED objects

IsWithinUpperBound ==
    /\ instant # Undefined
    /\ other # Undefined
    /\ duration # Undefined
    /\ op' = "isWithinUpperBound"
    /\ arg' = Undefined
    /\ ret' = Return(Bool(isWithinUpperBound(instant, other, duration)))
    /\ calls' = <<>>
    /\ UNCHANGED objects

IsWithinLowerBound ==
    /\ instant # Undefined
    /\ other # Undefined
    /\ duration # Undefined
    /\ op' = "isWithinLowerBound"
    /\ arg' = Undefined
    /\ ret' = Return(Bool(isWithinLowerBound(instant, other, duration)))
    /\ calls' = <<>>
    /\ UNCHANGED objects

FindClosestInstant ==
    /\ instant # Undefined
    /\ op' = "findClosestInstant"
    /\ arg' = Undefined
    /\ ret' = findClosestInstant(instant, instants)
    /\ calls' = <<>>
    /\ UNCHANGED objects

----------------------------------------------------------------------------
(* Optional's calls: the receiver is optional *)

OptionalOfCall(v) ==
    /\ op' = "Optional.of"
    /\ arg' = v
    /\ ret' = Return(OptionalOf(v))
    /\ calls' = <<>>
    /\ UNCHANGED objects

OptionalEmptyCall ==
    /\ op' = "Optional.empty"
    /\ arg' = Undefined
    /\ ret' = Return(OptionalEmpty)
    /\ calls' = <<>>
    /\ UNCHANGED objects

IsPresent ==
    /\ optional # Undefined
    /\ op' = "isPresent"
    /\ arg' = Undefined
    /\ ret' = Return(Bool(isPresent(optional)))
    /\ calls' = <<>>
    /\ UNCHANGED objects

Get ==
    /\ optional # Undefined
    /\ op' = "get"
    /\ arg' = Undefined
    /\ ret' = get(optional)
    /\ calls' = <<>>
    /\ UNCHANGED objects

\* Mutant of OrElse: the default kept in the receiver once it was used.
OrElseKeepingDefault(x) ==
    /\ optional # Undefined
    /\ op' = "orElse"
    /\ arg' = x
    /\ ret' = orElse(optional, x)
    /\ calls' = <<>>
    /\ optional' = IF isNullOrUndefined(optional.value) THEN Optional(x) ELSE optional
    /\ UNCHANGED <<instant, other, instants, duration, otherDuration, stamp>>

OrElse(x) ==
    /\ optional # Undefined
    /\ op' = "orElse"
    /\ arg' = x
    /\ ret' = orElse(optional, x)
    /\ calls' = <<>>
    /\ UNCHANGED objects

OrElseGet(x) ==
    /\ optional # Undefined
    /\ op' = "orElseGet"
    /\ arg' = x
    /\ ret' = orElseGet(optional, x).out
    /\ calls' = orElseGet(optional, x).calls
    /\ UNCHANGED objects

OrElseThrow(throws) ==
    /\ optional # Undefined
    /\ op' = "orElseThrow"
    /\ arg' = Thrower(throws)
    /\ ret' = orElseThrow(optional, throws).out
    /\ calls' = orElseThrow(optional, throws).calls
    /\ UNCHANGED objects

IfPresent ==
    /\ optional # Undefined
    /\ op' = "ifPresent"
    /\ arg' = Undefined
    /\ ret' = ifPresent(optional).out
    /\ calls' = ifPresent(optional).calls
    /\ UNCHANGED objects

Map(r) ==
    /\ optional # Undefined
    /\ op' = "map"
    /\ arg' = r
    /\ ret' = map(optional, r).out
    /\ calls' = map(optional, r).calls
    /\ UNCHANGED objects

Filter(b) ==
    /\ optional # Undefined
    /\ op' = "filter"
    /\ arg' = Bool(b)
    /\ ret' = filter(optional, b).out
    /\ calls' = filter(optional, b).calls
    /\ UNCHANGED objects

----------------------------------------------------------------------------
(* Instant's conversions: the receiver is stamp *)

ToISO8601 ==
    /\ stamp # Undefined
    /\ op' = "toISO8601"
    /\ arg' = Undefined
    /\ ret' = toISO8601(stamp)
    /\ calls' = <<>>
    /\ UNCHANGED objects

ToFriendlyString ==
    /\ stamp # Undefined
    /\ op' = "toFriendlyString"
    /\ arg' = Undefined
    /\ ret' = toFriendlyString(stamp)
    /\ calls' = <<>>
    /\ UNCHANGED objects

FromISO8601(iso8601) ==
    /\ stamp # Undefined
    /\ op' = "fromISO8601"
    /\ arg' = iso8601
    /\ ret' = fromISO8601(stamp, iso8601)
    /\ calls' = <<>>
    /\ UNCHANGED objects

(* The log level read from the environment *)

GetLogLevelFromEnv(envLogLevel) ==
    /\ op' = "getLogLevelFromEnv"
    /\ arg' = envLogLevel
    /\ ret' = getLogLevelFromEnv(envLogLevel)
    /\ calls' = <<>>
    /\ UNCHANGED objects

Next ==
    \/ \E n \in RangeMillis : DurationOfMillis(n)
    \/ DurationToMillis
    \/ DurationPlus
    \/ DurationMinus
    \/ DurationIsLessThan
    \/ DurationIsEquals
    \/ DurationIsGreaterThanOrEqual
    \/ InstantPlus
    \/ InstantMinus
    \/ Difference
    \/ IsWithinRange
    \/ IsWithinUpperBound
    \/ IsWithinLowerBound
    \/ FindClosestInstant
    \/ \E v \in Values : OptionalOfCall(v)
    \/ OptionalEmptyCall
    \/ IsPresent
    \/ Get
    \/ \E x \in Present : OrElse(x)
    \/ \E x \in Present : OrElseGet(x)
    \/ \E throws \in {"raises", "returns"} : OrElseThrow(throws)
    \/ IfPresent
    \/ \E r \in Values : Map(r)
    \/ \E b \in BOOLEAN : Filter(b)
    \/ ToISO8601
    \/ ToFriendlyString
    \/ \E iso8601 \in IsoStrings : FromISO8601(iso8601)
    \/ \E envLogLevel \in EnvValues : GetLogLevelFromEnv(envLogLevel)

\* The value types and the log level; no generator of PostgresClient runs.
Spec == Init /\ [][Next /\ UNCHANGED pgvars]_vars

----------------------------------------------------------------------------
(* A consumer driving one generator of PostgresClient.  The generator is made
   by calling withConnection or withTransaction, which runs nothing of the
   body; the consumer then calls next(), return() or throw() on it, or
   leaves it where it is. *)

InitPg ==
    /\ instant = Undefined
    /\ other = Undefined
    /\ instants = <<>>
    /\ duration = Undefined
    /\ otherDuration = Undefined
    /\ optional = Undefined
    /\ stamp = Undefined
    /\ op = "init"
    /\ arg = Undefined
    /\ ret = NoCall
    /\ calls = <<>>
    /\ generator \in {"withConnection", "withTransaction"}
    /\ pc = "start"
    /\ trace = <<>>
    /\ result = NoCall

\* generator.next(): the body runs from where it stands to its yield or end.
GeneratorNext(ok, v) ==
    /\ pc \in {"start", "yielded"}
    /\ pc' = Body(pc, "next", ok, v).pc
    /\ trace' = Body(pc, "next", ok, v).trace
    /\ result' = Body(pc, "next", ok, v).result
    /\ UNCHANGED generator
    /\ UNCHANGED values

\* generator.return(v): at the yield the body ends through its finally
\* block; a generator that has not started ends without running.
GeneratorReturn(ok, v) ==
    /\ pc \in {"start", "yielded"}
    /\ pc' = "done"
    /\ trace' = IF pc = "start" THEN trace ELSE Body(pc, "return", ok, v).trace
    /\ result' = IF pc = "start" THEN Returned(v) ELSE Body(pc, "return", ok, v).result
    /\ UNCHANGED generator
    /\ UNCHANGED values

\* generator.throw(): at the yield the error is raised inside the try block;
\* a generator that has not started ends with the error.
GeneratorThrow(ok) ==
    /\ pc \in {"start", "yielded"}
    /\ pc' = "done"
    /\ trace' = IF pc = "start" THEN trace ELSE Body(pc, "throw", ok, Undefined).trace
    /\ result' = IF pc = "start" THEN Raised("consumer") ELSE Body(pc, "throw", ok, Undefined).result
    /\ UNCHANGED generator
    /\ UNCHANGED values

\* Any of the three on a generator that has ended: nothing of the body runs.
CallWhenDone(sent, v) ==
    /\ pc = "done"
    /\ result' = IF sent = "throw" THEN Raised("consumer")
                 ELSE IF sent = "return" THEN Returned(v) ELSE Done
    /\ UNCHANGED <<generator, pc, trace>>
    /\ UNCHANGED values

NextPg ==
    \/ \E ok \in Outcomes, v \in Present : GeneratorNext(ok, v)
    \/ \E ok \in Outcomes, v \in Present : GeneratorReturn(ok, v)
    \/ \E ok \in Outcomes : GeneratorThrow(ok)
    \/ \E sent \in {"next", "return", "throw"}, v \in Present : CallWhenDone(sent, v)

SpecPg == InitPg /\ [][NextPg]_vars

----------------------------------------------------------------------------
(* Properties *)

\* An Optional with nothing in it: its slot is null or undefined.
Absent(o) == o.value = Null \/ o.value = Undefined

\* The distance in milliseconds between an instant and a candidate.
Dist(t, c) == Abs(t.epochMilli - c.epochMilli)

\* The first index of cs at which the distance to t is least.
FirstClosest(t, cs) ==
    CHOOSE k \in 1..Len(cs) :
        /\ \A j \in 1..Len(cs) : Dist(t, cs[k]) <= Dist(t, cs[j])
        /\ \A j \in 1..(k - 1) : Dist(t, cs[j]) > Dist(t, cs[k])

(* C1: t.findClosestInstant(cs) returns an empty Optional iff cs is empty;
   otherwise it returns a present Optional holding cs[k], k being the
   smallest index at which |t - cs[k]| is least: no element is closer, and
   of several equally close ones the earliest is returned. *)
C1_FindClosestInstant ==
    op = "findClosestInstant" =>
        /\ ret.kind = "return"
        /\ Absent(ret.value) <=> Len(instants) = 0
        /\ Len(instants) > 0 => ret.value.value = Ref(FirstClosest(instant, instants))

\* C1's case: two different candidates at the same least distance, the
\* earlier one returned.
C1_Witness ==
    /\ op = "findClosestInstant"
    /\ \E j, k \in 1..Len(instants) :
        /\ j < k
        /\ instants[j] # instants[k]
        /\ Dist(instant, instants[j]) = Dist(instant, instants[k])
        /\ \A i \in 1..Len(instants) : Dist(instant, instants[j]) <= Dist(instant, instants[i])
        /\ ret.value.value = Ref(j)

(* C2: base.isWithinRange(other, range) is true iff
   base - range < other < base + range, both bounds excluded;
   isWithinUpperBound is other < base + range and isWithinLowerBound is
   other > base - range. *)
C2_OpenInterval ==
    LET b == instant.epochMilli
        o == other.epochMilli
        r == duration.millis
    IN  /\ op = "isWithinRange" => ret = Return(Bool(b - r < o /\ o < b + r))
        /\ op = "isWithinUpperBound" => ret = Return(Bool(o < b + r))
        /\ op = "isWithinLowerBound" => ret = Return(Bool(o > b - r))

\* C2's case: other sits exactly on the lower bound of a non-empty interval
\* and is refused.
C2_Witness ==
    /\ op = "isWithinRange"
    /\ duration.millis > 0
    /\ other.epochMilli = instant.epochMilli - duration.millis
    /\ ret = Return(Bool(FALSE))

(* C3, as stated: for every non-negative range, a range of 0 ms included,
   base.isWithinRange(other, range) is true when other has base's
   millisecond value. *)
C3_AsStated ==
    (/\ op = "isWithinRange"
     /\ duration.millis >= 0
     /\ other.epochMilli = instant.epochMilli) => ret = Return(Bool(TRUE))

(* C3, amended: when other has base's millisecond value and the range is
   non-negative, base.isWithinRange(other, range) is true exactly when the
   range is positive; with a range of 0 ms the open interval is empty and
   the answer is false. *)
C3_PositiveRange ==
    (/\ op = "isWithinRange"
     /\ duration.millis >= 0
     /\ other.epochMilli = instant.epochMilli) => ret = Return(Bool(duration.millis > 0))

\* C3's case: other equal to base, a positive range, accepted.
C3_Witness ==
    /\ op = "isWithinRange"
    /\ duration.millis > 0
    /\ other.epochMilli = instant.epochMilli
    /\ ret = Return(Bool(TRUE))

(* C4: a.difference(b) is a Duration of |a - b| milliseconds, so never
   negative, also for negative epoch values; it is what b.difference(a)
   gives; and a.difference(a) is 0 ms. *)
C4_Difference ==
    op = "difference" =>
        /\ ret = Return(Duration(Abs(instant.epochMilli - other.epochMilli)))
        /\ toMillis(ret.value) >= 0
        /\ difference(other, instant) = ret
        /\ difference(instant, instant) = Return(Duration(0))

\* C4's case: the receiver before the epoch and before the argument.
C4_Witness ==
    /\ op = "difference"
    /\ instant.epochMilli < 0
    /\ other.epochMilli > 0
    /\ ret = Return(Duration(other.epochMilli - instant.epochMilli))

(* C5: Duration.ofMillis(n) raises and gives no Duration for n < 0; for
   n >= 0, 0 included, it returns a Duration d with d.toMillis() = n. *)
C5_OfMillis ==
    op = "Duration.ofMillis" =>
        IF arg.n < 0
        THEN ret.kind = "throw"
        ELSE ret.kind = "return" /\ toMillis(ret.value) = arg.n

\* C5's case: a negative argument refused.
C5_Witness ==
    /\ op = "Duration.ofMillis"
    /\ arg.n < 0
    /\ ret = Throw("Duration must not be negative")

\* What its methods show of an Optional, orElseThrow aside.
Observed(o) ==
    [isPresent |-> isPresent(o),
     get       |-> get(o),
     orElse    |-> [x \in Present |-> orElse(o, x)],
     orElseGet |-> [x \in Present |-> orElseGet(o, x)],
     ifPresent |-> ifPresent(o),
     map       |-> [r \in Values |-> map(o, r)],
     filter    |-> [b \in BOOLEAN |-> filter(o, b)]]

\* What orElseThrow shows of an Optional, for a thrower that raises and for
\* one that returns.
ObservedByOrElseThrow(o) == [t \in {"raises", "returns"} |-> orElseThrow(o, t)]

(* C6, as stated: Optional.of(v) is absent, and not to be told from
   Optional.empty(), exactly when v is null or undefined; for every other v
   it is present and get() gives v. *)
C6_AsStated ==
    op = "Optional.of" =>
        IF arg = Null \/ arg = Undefined
        THEN /\ isPresent(ret.value) = FALSE
             /\ Observed(ret.value) = Observed(OptionalEmpty)
             /\ ObservedByOrElseThrow(ret.value) = ObservedByOrElseThrow(OptionalEmpty)
        ELSE /\ isPresent(ret.value) = TRUE
             /\ get(ret.value) = Return(arg)

(* C6, amended: Optional.of(v) is absent exactly when v is null or
   undefined, and then isPresent, get, orElse, orElseGet, ifPresent, map and
   filter answer as they do on Optional.empty(); the slot keeps the null or
   undefined it was given, which orElseThrow hands out when its thrower
   returns.  For every other v it is present and get() gives v. *)
C6_OfAbsentOrPresent ==
    op = "Optional.of" =>
        IF arg = Null \/ arg = Undefined
        THEN /\ isPresent(ret.value) = FALSE
             /\ Observed(ret.value) = Observed(OptionalEmpty)
             /\ orElseThrow(ret.value, "returns").out = Return(arg)
        ELSE /\ isPresent(ret.value) = TRUE
             /\ get(ret.value) = Return(arg)

\* C6's case: Optional.of(null), absent, its slot holding null.
C6_Witness ==
    /\ op = "Optional.of"
    /\ arg = Null
    /\ ret.kind = "return"
    /\ isPresent(ret.value) = FALSE
    /\ ret.value.value = Null

(* C7: o.get() raises iff o is absent and otherwise returns the held value;
   o.orElse(x) returns the held value when o is present and x when it is
   absent, and never raises. *)
C7_GetOrElse ==
    /\ op = "get" =>
        /\ ret.kind = "throw" <=> Absent(optional)
        /\ ~Absent(optional) => ret = Return(optional.value)
    /\ op = "orElse" =>
        ret = Return(IF Absent(optional) THEN arg ELSE optional.value)

\* C7's case: get on an Optional built from null raises.
C7_Witness ==
    /\ op = "get"
    /\ optional = OptionalOf(Null)
    /\ ret = Throw("Value is not present")

(* C8, as stated: on an absent o, o.map(fn) is absent and fn is not called;
   on a present o holding v, fn is called once with v and o.map(fn) is
   present with get() = fn(v), whatever fn returns. *)
C8_AsStated ==
    op = "map" =>
        IF Absent(optional)
        THEN Absent(ret.value) /\ calls = <<>>
        ELSE /\ calls = <<Invoked("mapper", optional.value)>>
             /\ isPresent(ret.value) = TRUE
             /\ get(ret.value) = Return(arg)

(* C8, amended: on an absent o, o.map(fn) is absent and fn is not called;
   on a present o holding v, fn is called once with v and o.map(fn) is
   Optional.of(fn(v)): present with get() = fn(v) when fn(v) is neither null
   nor undefined, absent when fn(v) is null or undefined. *)
C8_MapOfResult ==
    op = "map" =>
        IF Absent(optional)
        THEN Absent(ret.value) /\ calls = <<>>
        ELSE /\ calls = <<Invoked("mapper", optional.value)>>
             /\ ret = Return(OptionalOf(arg))
             /\ isPresent(ret.value) <=> (arg # Null /\ arg # Undefined)
             /\ isPresent(ret.value) => get(ret.value) = Return(arg)

\* C8's case: a present Optional mapped to a number.
C8_Witness ==
    /\ op = "map"
    /\ ~Absent(optional)
    /\ arg \in Present
    /\ arg # optional.value
    /\ calls = <<Invoked("mapper", optional.value)>>
    /\ get(ret.value) = Return(arg)

(* C9: on a present o, o.orElseThrow(f) returns the held value and f is not
   called; on an absent o, f is called once: if it raises the call ends
   with that error, if it returns the call returns the absent slot (null
   or undefined) and does not raise. *)
C9_OrElseThrow ==
    op = "orElseThrow" =>
        IF Absent(optional)
        THEN /\ calls = <<Invoked("throws", Undefined)>>
             /\ arg = Thrower("raises") => ret = Throw("thrown by the thrower")
             /\ arg = Thrower("returns") => ret = Return(optional.value)
        ELSE /\ calls = <<>>
             /\ ret = Return(optional.value)

\* C9's case: an Optional built from null and a thrower that returns.
C9_Witness ==
    /\ op = "orElseThrow"
    /\ optional = OptionalOf(Null)
    /\ arg = Thrower("returns")
    /\ calls = <<Invoked("throws", Undefined)>>
    /\ ret = Return(Null)

(* C10: no call writes a field of its receiver or of an argument: an
   Optional's slot, a Duration's milliseconds, an Instant's epoch
   milliseconds and the elements of the array are after every call, whether
   it returned or raised, what they were before it. *)
C10_NoInstanceMutated == [][objects' = objects]_vars

\* C10's case: a call that raised, its receiver still holding what it was
\* built from.
C10_Witness ==
    /\ op \in {"get", "orElseThrow"}
    /\ ret.kind = "throw"
    /\ optional = OptionalOf(Null)

\* The three errors C11 names: the negative-duration error of ofMillis, get
\* on an absent Optional, and what a caller's thrower raises.
NamedError ==
    \/ op = "Duration.ofMillis" /\ arg.n < 0
    \/ op = "get" /\ Absent(optional)
    \/ op = "orElseThrow" /\ Absent(optional) /\ arg = Thrower("raises")

(* C11, as stated: apart from Duration.ofMillis on a negative argument,
   Optional.get on an absent Optional and a caller-supplied thrower, no
   operation raises. *)
C11_AsStated == ret.kind = "throw" => NamedError

(* C11, amended: apart from Duration.ofMillis on a negative argument,
   Optional.get on an absent Optional, a caller-supplied thrower, and
   toISO8601 on an Instant whose timestamp is no valid date (NaN, or beyond
   the range of Date), no operation raises; difference and
   findClosestInstant never end in the negative-duration error, and
   Duration.minus returns also when its result is negative. *)
C11_OnlyNamedErrors ==
    /\ ret.kind = "throw" =>
        \/ NamedError
        \/ op = "toISO8601" /\ stamp.epochMilli \in {NaN, BeyondDate("+"), BeyondDate("-")}
    /\ op \in {"difference", "findClosestInstant", "Duration.minus"} => ret.kind = "return"

\* C11's case: Duration.minus returning a negative Duration.
C11_Witness ==
    /\ op = "Duration.minus"
    /\ duration.millis >= 0
    /\ otherDuration.millis > duration.millis
    /\ ret = Return(Duration(duration.millis - otherDuration.millis))

\* The level a name stands for, in any case of its letters; none for
\* anything that is not a level's name.
LevelNamed(text) ==
    CASE toUpperCase(text) = TRACE_ -> Num(4)
      [] toUpperCase(text) = DEBUG_ -> Num(3)
      [] toUpperCase(text) = INFO_ -> Num(2)
      [] toUpperCase(text) = WARN_ -> Num(1)
      [] toUpperCase(text) = ERROR_ -> Num(0)
      [] OTHER -> Undefined

(* C12: getLogLevelFromEnv returns LogLevel.INFO when LOG_LEVEL is unset,
   empty, or any string that is not, in any case, one of TRACE, DEBUG, INFO,
   WARN, ERROR, the numeric strings "0" to "4" included; for one of those
   names it returns that level; so its result is always one of the five
   numbers of LogLevel. *)
C12_LevelOrInfo ==
    op = "getLogLevelFromEnv" =>
        /\ ret.kind = "return"
        /\ ret.value \in {Num(n) : n \in 0..4}
        /\ ret.value = IF arg = Undefined \/ LevelNamed(arg.text) = Undefined
                       THEN Num(2)
                       ELSE LevelNamed(arg.text)

----------------------------------------------------------------------------
(* PostgresClient's generators.  The properties read the calls the body has
   made on the client. *)

\* The places of the calls of one name in a trace.
CallsOf(tr, call) == {i \in 1..Len(tr) : tr[i].call = call}

Called(tr, call) == CallsOf(tr, call) # {}
Succeeded(tr, call) == \E i \in CallsOf(tr, call) : tr[i].ok
Failed(tr, call) == \E i \in CallsOf(tr, call) : ~tr[i].ok

\* Every call of later comes after some call of earlier.
Precedes(tr, earlier, later) ==
    \A i \in CallsOf(tr, later) : \E j \in CallsOf(tr, earlier) : j < i

\* Every call the body made on the client itself succeeded; the callback may
\* have failed.
ClientCallsSucceeded(tr) ==
    \A i \in 1..Len(tr) : tr[i].call # "callback" => tr[i].ok

(* C13: in every execution of withTransaction in which begin() succeeded,
   however the consumer drives the generator, begin precedes the callback;
   when the generator terminates, a transaction whose callback succeeded has
   been committed and not rolled back, one whose callback failed has been
   rolled back without a call of commit and the callback's error is what the
   consumer gets, and the transaction is never left neither committed nor
   rolled back.  Stated for the executions in which no call on the client
   fails, which the claim includes. *)
C13_CommitOrRollback ==
    [][(/\ generator = "withTransaction"
        /\ Succeeded(trace', "begin")
        /\ ClientCallsSucceeded(trace'))
       => /\ Precedes(trace', "begin", "callback")
          /\ (pc # "done" /\ pc' = "done") =>
                /\ Succeeded(trace', "callback") =>
                      Succeeded(trace', "commit") /\ ~Called(trace', "rollback")
                /\ Failed(trace', "callback") =>
                      /\ Called(trace', "rollback")
                      /\ ~Called(trace', "commit")
                      /\ result' = Raised("callback")
                /\ Called(trace', "commit") \/ Called(trace', "rollback")]_vars

(* C14: for withConnection and withTransaction, once the generator has
   terminated every successful connect() has been followed by exactly one
   end(), whatever failed and however the consumer closed the generator;
   end() is never called before the callback has finished; and the client
   stays connected only while a started generator stands at its yield. *)
C14_EndAfterConnect ==
    /\ (pc = "done" /\ Succeeded(trace, "connect")) =>
            Cardinality(CallsOf(trace, "end")) = 1
    /\ Precedes(trace, "callback", "end")
    /\ (Succeeded(trace, "connect") /\ ~Called(trace, "end")) => pc = "yielded"

====
